---- MODULE Spec2Model ----
(***************************************************************************)
(* Lifecycle controller of the Kotlin/Native runtime (Runtime.cpp):        *)
(* per-thread runtime creation and teardown, one-time global               *)
(* initialisation, and the process-wide shutdown protocol.                 *)
(*                                                                         *)
(* Every thread is a process with a program counter pc[t].  One action is  *)
(* one atomic step of the code: at most one access to a process-wide cell  *)
(* (globalRuntimeStatus, aliveRuntimesCount, initializingRuntimesCount, a  *)
(* leak-checker flag), together with the thread-local work around it.      *)
(***************************************************************************)
EXTENDS Integers, Sequences, FiniteSets

\* ---------------------------------------------------------------- bounds
NumThreads == 2
MaxCalls == 4
MaxExits == 1
MaxNodes == 3

Threads == 1..NumThreads

\* The InitNode objects that can be registered
Nodes == 1..MaxNodes

\* ------------------------------------------------------ program constants
\* enum GlobalRuntimeStatus
kGlobalRuntimeUninitialized == 0
kGlobalRuntimeRunning == 1
kGlobalRuntimeShuttingDown == 2
kGlobalRuntimeShutdown == 3

\* phase tags passed to InitOrDeinitGlobalVariables
INIT_GLOBALS == 0
INIT_THREAD_LOCAL_GLOBALS == 1
DEINIT_THREAD_LOCAL_GLOBALS == 2
DEINIT_GLOBALS == 3

\* The null pointer of InitNode* (initHeadNode, initTailNode, InitNode::next)
nullptr == 0

\* constexpr RuntimeState* kInvalidRuntime = nullptr.  A RuntimeState is reached
\* only from the thread that constructed it (its slot, its exit callbacks), so a
\* non-null pointer of thread t is an index 1, 2, ... into heap[t].
kInvalidRuntime == 0

\* enum class RuntimeStatus
RuntimeStatus == {"kUninitialized", "kRunning", "kDestroying"}

VARIABLES
  initHeadNode,               \* InitNode*
  initTailNode,               \* InitNode*
  nodeNext,                   \* per InitNode: its field `next`
  appended,                   \* the arguments of AppendToInitializersTail, in call order
  invoked,                    \* the callbacks the last phase run invoked, with their arguments
  globalRuntimeStatus,        \* volatile GlobalRuntimeStatus
  aliveRuntimesCount,         \* volatile int
  initializingRuntimesCount,  \* ScopedInitializingRuntime::initializingRuntimesCount
  g_checkLeaks,               \* KBoolean
  g_checkLeakedCleaners,      \* KBoolean
  runtimeState,               \* THREAD_LOCAL_VARIABLE RuntimeState* (per thread)
  heap,                       \* per thread: the RuntimeState objects it constructed
  exitCallbacks,              \* per thread: arguments registered with konan::onThreadExit
  pending,                    \* per thread: callbacks still to fire while the thread exits
  pc,                         \* per thread: position in the code
  state,                      \* per thread: argument of the running deinitRuntime
  caller,                     \* per thread: who called the running deinitRuntime
  firstRuntime,               \* per thread: local of initRuntime
  lastRuntime,                \* per thread: local of deinitRuntime
  deinitTrace,                \* per thread: what its last deinitRuntime did, in order
  startStatus,                \* per thread: globalRuntimeStatus when its last initRuntime began
  phaseRuns,                  \* per phase tag: runs of InitOrDeinitGlobalVariables
  fullGCs,                    \* calls of PerformFullGC
  cleanerShutdowns,           \* arguments of the calls of ShutdownCleaners
  abortMsg,                   \* diagnostic of konan::abort, "none" while the process lives
  abortCount,                 \* otherRuntimesCount printed by the leak-check abort
  calls                       \* calls of the exported functions made so far

vars == <<initHeadNode, initTailNode, nodeNext, appended, invoked,
          globalRuntimeStatus, aliveRuntimesCount, initializingRuntimesCount,
          g_checkLeaks, g_checkLeakedCleaners, runtimeState, heap, exitCallbacks,
          pending, pc, state, caller, firstRuntime, lastRuntime, deinitTrace,
          startStatus, phaseRuns, fullGCs, cleanerShutdowns, abortMsg, abortCount,
          calls>>

globals == <<globalRuntimeStatus, aliveRuntimesCount, initializingRuntimesCount>>
flags == <<g_checkLeaks, g_checkLeakedCleaners>>
effects == <<phaseRuns, invoked, fullGCs, cleanerShutdowns>>
registry == <<initHeadNode, initTailNode, nodeNext, appended>>
locals == <<state, caller, firstRuntime, lastRuntime, deinitTrace>>
aborts == <<abortMsg, abortCount>>

\* The test of the thread's slot always finding it empty
isValidRuntime_never(t) == FALSE

\* inline bool isValidRuntime()
isValidRuntime(t) == runtimeState[t] # kInvalidRuntime

\* konan::abort() has not been called
Alive == abortMsg = "none"

\* konan::abort(): the process stops where it is, no destructor runs
Abort(t, msg, n) ==
  /\ abortMsg' = msg
  /\ abortCount' = n
  /\ pc' = [pc EXCEPT ![t] = "aborted"]

Goto(t, label) == pc' = [pc EXCEPT ![t] = label]

\* The thread has not touched the runtime yet
Fresh(t) == pc[t] = "idle" /\ exitCallbacks[t] = <<>>

\* Threads are numbered in the order in which they first touch the runtime
InOrder(t) == \A u \in Threads : u < t => ~Fresh(u)

\* The process lives and the thread is between calls
Idle(t) == Alive /\ pc[t] = "idle"

\* The calls explored: at most MaxCalls, by threads numbered as above
CanCall(t) == calls < MaxCalls /\ InOrder(t)

\* KBoolean g_checkLeaks = KonanNeedDebugInfo; g_checkLeakedCleaners likewise:
\* both flags start with the value of the same build constant.
Init ==
  /\ initHeadNode = nullptr
  /\ initTailNode = nullptr
  /\ nodeNext = [n \in Nodes |-> nullptr]
  /\ appended = <<>>
  /\ invoked = <<>>
  /\ globalRuntimeStatus = kGlobalRuntimeUninitialized
  /\ aliveRuntimesCount = 0
  /\ initializingRuntimesCount = 0
  /\ \E KonanNeedDebugInfo \in BOOLEAN :
       /\ g_checkLeaks = KonanNeedDebugInfo
       /\ g_checkLeakedCleaners = KonanNeedDebugInfo
  /\ runtimeState = [t \in Threads |-> kInvalidRuntime]
  /\ heap = [t \in Threads |-> <<>>]
  /\ exitCallbacks = [t \in Threads |-> <<>>]
  /\ pending = [t \in Threads |-> <<>>]
  /\ pc = [t \in Threads |-> "idle"]
  /\ state = [t \in Threads |-> kInvalidRuntime]
  /\ caller = [t \in Threads |-> "none"]
  /\ firstRuntime = [t \in Threads |-> FALSE]
  /\ lastRuntime = [t \in Threads |-> FALSE]
  /\ deinitTrace = [t \in Threads |-> <<>>]
  /\ startStatus = [t \in Threads |-> kGlobalRuntimeUninitialized]
  /\ phaseRuns = [p \in INIT_GLOBALS..DEINIT_GLOBALS |-> 0]
  /\ fullGCs = 0
  /\ cleanerShutdowns = <<>>
  /\ abortMsg = "none"
  /\ abortCount = 0
  /\ calls = 0

\* The MemoryState of a handle: InitMemory() gives every handle its own
MemoryStateOf(t, h) == <<t, h>>

\* InitOrDeinitGlobalVariables(): the loop
\* while (currentNode != nullptr) { currentNode->init(initialize, memory);
\*                                   currentNode = currentNode->next; }
\* as the sequence of the calls it makes
RECURSIVE InvokeFrom(_, _, _)
InvokeFrom(currentNode, initialize, memory) ==
  IF currentNode = nullptr
    THEN <<>>
    ELSE <<[init |-> currentNode, initialize |-> initialize, memory |-> memory]>>
           \o InvokeFrom(nodeNext[currentNode], initialize, memory)

\* void InitOrDeinitGlobalVariables(int initialize, MemoryState* memory)
InitOrDeinitGlobalVariables(initialize, memory) ==
  /\ phaseRuns' = [phaseRuns EXCEPT ![initialize] = @ + 1]
  /\ invoked' = InvokeFrom(initHeadNode, initialize, memory)

\* An append that links the new node in front of the chain
AppendToInitializersTail_prepend(next) ==
  /\ nodeNext' = [nodeNext EXCEPT ![next] = initHeadNode]
  /\ initHeadNode' = next
  /\ initTailNode' = IF initTailNode = nullptr THEN next ELSE initTailNode
  /\ appended' = Append(appended, next)
  /\ UNCHANGED <<globals, flags, runtimeState, heap, exitCallbacks, pending, pc,
                 locals, startStatus, effects, aborts, calls>>

\* void AppendToInitializersTail(InitNode *next)
AppendToInitializersTail(next) ==
  /\ IF initHeadNode = nullptr
       THEN initHeadNode' = next /\ UNCHANGED nodeNext
       ELSE nodeNext' = [nodeNext EXCEPT ![initTailNode] = next] /\ UNCHANGED initHeadNode
  /\ initTailNode' = next
  /\ appended' = Append(appended, next)
  /\ UNCHANGED <<globals, flags, runtimeState, heap, exitCallbacks, pending, pc,
                 locals, startStatus, effects, aborts, calls>>

\* ----------------------------------------------------------------- ensure
\* void Kotlin_initRuntimeIfNeeded(): the isValidRuntime() test and, when the
\* thread has no runtime, the entry of initRuntime(): ScopedInitializingRuntime
\* guard (atomicAdd(&initializingRuntimesCount, 1)).
Kotlin_initRuntimeIfNeeded(t) ==
  /\ Idle(t)
  /\ IF isValidRuntime(t)
       THEN /\ calls' = calls + 1
            /\ UNCHANGED <<initializingRuntimesCount, pc, startStatus>>
       ELSE /\ calls' = calls + 1
            /\ initializingRuntimesCount' = initializingRuntimesCount + 1
            /\ startStatus' = [startStatus EXCEPT ![t] = globalRuntimeStatus]
            /\ Goto(t, "init_start")
  /\ UNCHANGED <<registry, globalRuntimeStatus, aliveRuntimesCount, flags, runtimeState, heap,
                 exitCallbacks, pending, locals, effects, aborts>>

\* A store where initRuntime() has a compare-and-swap: any status that is not
\* Shutdown becomes Running.
tryStart_store(lastStatus) ==
  IF lastStatus # kGlobalRuntimeShutdown THEN kGlobalRuntimeRunning ELSE lastStatus

\* initRuntime(): the value compareAndSwap(&globalRuntimeStatus,
\* kGlobalRuntimeUninitialized, kGlobalRuntimeRunning) leaves in the cell
tryStart(lastStatus) ==
  IF lastStatus = kGlobalRuntimeUninitialized THEN kGlobalRuntimeRunning ELSE lastStatus

\* The test of initRuntime() against the wrong enumerator
startRefused_shuttingDown(lastStatus) == lastStatus = kGlobalRuntimeShuttingDown

\* The test of initRuntime() left out
startRefused_never(lastStatus) == FALSE

\* initRuntime(): if (lastStatus == kGlobalRuntimeShutdown) { ...; konan::abort(); }
startRefused(lastStatus) == lastStatus = kGlobalRuntimeShutdown

\* initRuntime(): the compare-and-swap on globalRuntimeStatus and the abort when
\* the value read is kGlobalRuntimeShutdown.
initRuntime_tryStart(t) ==
  /\ Alive /\ pc[t] = "init_start"
  /\ LET lastStatus == globalRuntimeStatus IN
       /\ globalRuntimeStatus' = tryStart(lastStatus)
       /\ IF startRefused(lastStatus)
            THEN Abort(t, "Kotlin runtime was shut down. Cannot create new runtimes", 0)
            ELSE Goto(t, "init_construct") /\ UNCHANGED aborts
  /\ UNCHANGED <<registry, aliveRuntimesCount, initializingRuntimesCount, flags, runtimeState,
                 heap, exitCallbacks, pending, locals, startStatus, effects, calls>>

\* The test of initRuntime() applied to the value before the addition
isFirstRuntime_before(before, after) == before = 1

\* initRuntime(): atomicAdd(&aliveRuntimesCount, 1) == 1, atomicAdd returning the
\* value after the addition
isFirstRuntime(before, after) == after = 1

\* initRuntime(): konanConstructInstance<RuntimeState>() succeeds, the handle is
\* stored in the thread's slot, InitMemory() and WorkerInit(true) fill it (all
\* local to the thread), then
\* bool firstRuntime = atomicAdd(&aliveRuntimesCount, 1) == 1;
\* atomicAdd returns the value after the addition.
initRuntime_construct(t) ==
  /\ Alive /\ pc[t] = "init_construct"
  /\ heap' = [heap EXCEPT ![t] = Append(@, [status |-> "kUninitialized",
                                             destroyed |-> FALSE])]
  /\ runtimeState' = [runtimeState EXCEPT ![t] = Len(heap[t]) + 1]
  /\ aliveRuntimesCount' = aliveRuntimesCount + 1
  /\ firstRuntime' = [firstRuntime EXCEPT ![t] =
                        isFirstRuntime(aliveRuntimesCount, aliveRuntimesCount')]
  /\ Goto(t, IF firstRuntime'[t] THEN "init_globals" ELSE "init_thread_locals")
  /\ UNCHANGED <<registry, globalRuntimeStatus, initializingRuntimesCount, flags, exitCallbacks,
                 pending, state, caller, lastRuntime, deinitTrace, startStatus, effects, aborts,
                 calls>>

\* An allocation failure treated as fatal
initRuntime_allocFails_aborts(t) ==
  /\ Alive /\ pc[t] = "init_construct"
  /\ Abort(t, "Out of memory", 0)
  /\ UNCHANGED <<registry, globals, flags, runtimeState, heap, exitCallbacks, pending, locals,
                 startStatus, effects, calls>>

\* The early return of initRuntime() leaving the guard's count as it is
initRuntime_allocFails_keepsGuard(t) ==
  /\ Alive /\ pc[t] = "init_construct"
  /\ exitCallbacks' = [exitCallbacks EXCEPT ![t] = Append(@, runtimeState[t])]
  /\ startStatus' = [startStatus EXCEPT ![t] = kGlobalRuntimeUninitialized]
  /\ Goto(t, "idle")
  /\ UNCHANGED <<registry, globals, flags, runtimeState, heap, pending, locals, effects,
                 aborts, calls>>

\* initRuntime(): konanConstructInstance returns null: `return kInvalidRuntime`
\* runs the guard's destructor, and Kotlin_initRuntimeIfNeeded then registers
\* the (empty) slot with konan::onThreadExit.
initRuntime_allocFails(t) ==
  /\ Alive /\ pc[t] = "init_construct"
  /\ initializingRuntimesCount' = initializingRuntimesCount - 1
  /\ exitCallbacks' = [exitCallbacks EXCEPT ![t] = Append(@, runtimeState[t])]
  /\ startStatus' = [startStatus EXCEPT ![t] = kGlobalRuntimeUninitialized]
  /\ Goto(t, "idle")
  /\ UNCHANGED <<registry, globalRuntimeStatus, aliveRuntimesCount, flags, runtimeState, heap,
                 pending, locals, effects, aborts, calls>>

\* initRuntime(): if (firstRuntime) { consoleInit(); ...; InitOrDeinitGlobalVariables(INIT_GLOBALS) }
initRuntime_initGlobals(t) ==
  /\ Alive /\ pc[t] = "init_globals"
  /\ InitOrDeinitGlobalVariables(INIT_GLOBALS, MemoryStateOf(t, runtimeState[t]))
  /\ Goto(t, "init_thread_locals")
  /\ UNCHANGED <<registry, globals, flags, runtimeState, heap, exitCallbacks, pending, locals,
                 startStatus, fullGCs, cleanerShutdowns, aborts, calls>>

\* initRuntime(): InitOrDeinitGlobalVariables(INIT_THREAD_LOCAL_GLOBALS, ...)
initRuntime_initThreadLocals(t) ==
  /\ Alive /\ pc[t] = "init_thread_locals"
  /\ InitOrDeinitGlobalVariables(INIT_THREAD_LOCAL_GLOBALS, MemoryStateOf(t, runtimeState[t]))
  /\ Goto(t, "init_running")
  /\ UNCHANGED <<registry, globals, flags, runtimeState, heap, exitCallbacks, pending, locals,
                 startStatus, fullGCs, cleanerShutdowns, aborts, calls>>

\* The return of initRuntime() leaving the guard's count as it is
initRuntime_return_keepsGuard(t) ==
  /\ Alive /\ pc[t] = "init_running"
  /\ heap[t][runtimeState[t]].status = "kUninitialized"
  /\ heap' = [heap EXCEPT ![t][runtimeState[t]].status = "kRunning"]
  /\ exitCallbacks' = [exitCallbacks EXCEPT ![t] = Append(@, runtimeState[t])]
  /\ firstRuntime' = [firstRuntime EXCEPT ![t] = FALSE]
  /\ startStatus' = [startStatus EXCEPT ![t] = kGlobalRuntimeUninitialized]
  /\ Goto(t, "idle")
  /\ UNCHANGED <<registry, globals, flags, runtimeState, pending, state, caller,
                 lastRuntime, deinitTrace, effects, aborts, calls>>

\* initRuntime(): RuntimeAssert(result->status == kUninitialized);
\* result->status = kRunning; `return result` runs ~ScopedInitializingRuntime
\* (atomicAdd(&initializingRuntimesCount, -1)); Kotlin_initRuntimeIfNeeded then
\* calls konan::onThreadExit(Kotlin_deinitRuntimeCallback, runtimeState).
initRuntime_return(t) ==
  /\ Alive /\ pc[t] = "init_running"
  /\ heap[t][runtimeState[t]].status = "kUninitialized"
  /\ heap' = [heap EXCEPT ![t][runtimeState[t]].status = "kRunning"]
  /\ initializingRuntimesCount' = initializingRuntimesCount - 1
  /\ exitCallbacks' = [exitCallbacks EXCEPT ![t] = Append(@, runtimeState[t])]
  /\ firstRuntime' = [firstRuntime EXCEPT ![t] = FALSE]
  /\ startStatus' = [startStatus EXCEPT ![t] = kGlobalRuntimeUninitialized]
  /\ Goto(t, "idle")
  /\ UNCHANGED <<registry, globalRuntimeStatus, aliveRuntimesCount, flags, runtimeState,
                 pending, state, caller, lastRuntime, deinitTrace, effects, aborts, calls>>

\* --------------------------------------------------------------- teardown
\* void Kotlin_deinitRuntimeIfNeeded(): if (isValidRuntime()) deinitRuntime(::runtimeState);
\* on a thread without a runtime the call leaves every variable as it is.
Kotlin_deinitRuntimeIfNeeded(t) ==
  /\ Idle(t)
  /\ IF isValidRuntime(t)
       THEN /\ calls' = calls + 1
            /\ state' = [state EXCEPT ![t] = runtimeState[t]]
            /\ caller' = [caller EXCEPT ![t] = "Kotlin_deinitRuntimeIfNeeded"]
            /\ Goto(t, "deinit_start")
       ELSE UNCHANGED <<state, caller, pc, calls>>
  /\ UNCHANGED <<registry, globals, flags, runtimeState, heap, exitCallbacks, pending,
                 firstRuntime, lastRuntime, deinitTrace, startStatus, effects, aborts>>

\* The handle deinitRuntime was given is a live object in the running state
StateIsRunning(t, h) ==
  /\ h # kInvalidRuntime
  /\ ~heap[t][h].destroyed
  /\ heap[t][h].status = "kRunning"

\* The test of deinitRuntime() applied to the value before the addition
isLastRuntime_before(before, after) == before = 0

\* deinitRuntime(): atomicAdd(&aliveRuntimesCount, -1) == 0, atomicAdd returning
\* the value after the addition
isLastRuntime(before, after) == after = 0

\* deinitRuntime(): state->status = kDestroying; RestoreMemory(...); atomicAdd(...)
markSteps == <<"kDestroying", "RestoreMemory", "atomicAdd">>

\* The last statements of deinitRuntime() with the thread data cleaned up too early
releaseSteps_cleanupEarly ==
  <<"GetWorkerId", "WorkerDeinit", "WorkerDestroyThreadDataIfNeeded", "DeinitMemory",
    "konanDestructInstance">>

\* deinitRuntime(): auto workerId = GetWorkerId(state->worker); WorkerDeinit(...);
\* DeinitMemory(...); konanDestructInstance(state);
\* WorkerDestroyThreadDataIfNeeded(workerId)
releaseSteps ==
  <<"GetWorkerId", "WorkerDeinit", "DeinitMemory", "konanDestructInstance",
    "WorkerDestroyThreadDataIfNeeded">>

\* The body of deinitRuntime() up to the decrement:
\* state->status = kDestroying; RestoreMemory(state->memoryState);
\* bool lastRuntime = atomicAdd(&aliveRuntimesCount, -1) == 0;
deinitRuntime_body(t) ==
  /\ heap' = [heap EXCEPT ![t][state[t]].status = "kDestroying"]
  /\ aliveRuntimesCount' = aliveRuntimesCount - 1
  /\ lastRuntime' = [lastRuntime EXCEPT ![t] =
                       isLastRuntime(aliveRuntimesCount, aliveRuntimesCount')]
  /\ deinitTrace' = [deinitTrace EXCEPT ![t] = markSteps]
  /\ Goto(t, "deinit_thread_locals")
  /\ UNCHANGED <<registry, globalRuntimeStatus, initializingRuntimesCount, flags, runtimeState,
                 exitCallbacks, pending, state, caller, firstRuntime, startStatus,
                 effects, aborts, calls>>

\* deinitRuntime(): RuntimeAssert(state->status == kRunning) holds
deinitRuntime_markDestroying(t) ==
  /\ Alive /\ pc[t] = "deinit_start"
  /\ StateIsRunning(t, state[t])
  /\ deinitRuntime_body(t)

\* deinitRuntime() entered with a null argument: state->status dereferences
\* nullptr and the process dies.
deinitRuntime_nullState(t) ==
  /\ Alive /\ pc[t] = "deinit_start"
  /\ state[t] = kInvalidRuntime
  /\ Abort(t, "null dereference", 0)
  /\ UNCHANGED <<registry, globals, flags, runtimeState, heap, exitCallbacks, pending, locals,
                 startStatus, effects, calls>>

\* deinitRuntime() entered with a handle that is not running (it was destroyed
\* before, so state->status reads freed memory): a build with RuntimeAssert
\* enabled reports "Runtime must be in the running state" and aborts ...
deinitRuntime_assertFails(t) ==
  /\ Alive /\ pc[t] = "deinit_start"
  /\ state[t] # kInvalidRuntime /\ ~StateIsRunning(t, state[t])
  /\ Abort(t, "Runtime must be in the running state", 0)
  /\ UNCHANGED <<registry, globals, flags, runtimeState, heap, exitCallbacks, pending, locals,
                 startStatus, effects, calls>>

\* ... and a build without RuntimeAssert goes on and tears the handle down again.
deinitRuntime_unchecked(t) ==
  /\ Alive /\ pc[t] = "deinit_start"
  /\ state[t] # kInvalidRuntime /\ ~StateIsRunning(t, state[t])
  /\ deinitRuntime_body(t)

\* deinitRuntime(): InitOrDeinitGlobalVariables(DEINIT_THREAD_LOCAL_GLOBALS, ...)
deinitRuntime_deinitThreadLocals(t) ==
  /\ Alive /\ pc[t] = "deinit_thread_locals"
  /\ InitOrDeinitGlobalVariables(DEINIT_THREAD_LOCAL_GLOBALS, MemoryStateOf(t, state[t]))
  /\ deinitTrace' = [deinitTrace EXCEPT ![t] = Append(@, "DEINIT_THREAD_LOCAL_GLOBALS")]
  /\ Goto(t, IF lastRuntime[t] THEN "deinit_globals" ELSE "deinit_release")
  /\ UNCHANGED <<registry, globals, flags, runtimeState, heap, exitCallbacks, pending,
                 state, caller, firstRuntime, lastRuntime, startStatus, fullGCs,
                 cleanerShutdowns, aborts, calls>>

\* deinitRuntime(): if (lastRuntime) InitOrDeinitGlobalVariables(DEINIT_GLOBALS, ...)
deinitRuntime_deinitGlobals(t) ==
  /\ Alive /\ pc[t] = "deinit_globals"
  /\ InitOrDeinitGlobalVariables(DEINIT_GLOBALS, MemoryStateOf(t, state[t]))
  /\ deinitTrace' = [deinitTrace EXCEPT ![t] = Append(@, "DEINIT_GLOBALS")]
  /\ Goto(t, "deinit_release")
  /\ UNCHANGED <<registry, globals, flags, runtimeState, heap, exitCallbacks, pending,
                 state, caller, firstRuntime, lastRuntime, startStatus, fullGCs,
                 cleanerShutdowns, aborts, calls>>

\* deinitRuntime(): GetWorkerId, WorkerDeinit, DeinitMemory, konanDestructInstance,
\* WorkerDestroyThreadDataIfNeeded; then the return into the caller:
\* Kotlin_deinitRuntimeIfNeeded and Kotlin_shutdownRuntime clear the thread's slot,
\* Kotlin_deinitRuntimeCallback returns into the thread's exit.
deinitRuntime_release(t) ==
  /\ Alive /\ pc[t] = "deinit_release"
  /\ heap' = [heap EXCEPT ![t][state[t]].destroyed = TRUE]
  /\ IF caller[t] = "Kotlin_deinitRuntimeCallback"
       THEN Goto(t, "exiting") /\ UNCHANGED runtimeState
       ELSE /\ Goto(t, "idle")
            /\ runtimeState' = [runtimeState EXCEPT ![t] = kInvalidRuntime]
  /\ deinitTrace' = [deinitTrace EXCEPT ![t] = @ \o releaseSteps]
  /\ state' = [state EXCEPT ![t] = kInvalidRuntime]
  /\ caller' = [caller EXCEPT ![t] = "none"]
  /\ lastRuntime' = [lastRuntime EXCEPT ![t] = FALSE]
  /\ UNCHANGED <<registry, globals, flags, exitCallbacks, pending, firstRuntime, startStatus,
                 effects, aborts, calls>>

\* ------------------------------------------------------------ thread exit
\* The thread is terminating or has terminated
Exiting(t) == pc[t] = "exiting" \/ caller[t] = "Kotlin_deinitRuntimeCallback"

\* The thread exits explored: at most MaxExits
CanExit == Cardinality({u \in Threads : Exiting(u)}) < MaxExits

\* The thread terminates and the host starts firing what konan::onThreadExit
\* registered on it.  The exit of a thread that registered nothing does not
\* reach this code.
ThreadExit(t) ==
  /\ Idle(t)
  /\ exitCallbacks[t] # <<>>
  /\ pending' = [pending EXCEPT ![t] = exitCallbacks[t]]
  /\ Goto(t, "exiting")
  /\ UNCHANGED <<registry, globals, flags, runtimeState, heap, exitCallbacks, locals,
                 startStatus, effects, aborts, calls>>

\* void Kotlin_deinitRuntimeCallback(void* argument): deinitRuntime(state).
\* The thread is gone once pending[t] is empty.
Kotlin_deinitRuntimeCallback(t) ==
  /\ Alive /\ pc[t] = "exiting" /\ pending[t] # <<>>
  /\ state' = [state EXCEPT ![t] = Head(pending[t])]
  /\ caller' = [caller EXCEPT ![t] = "Kotlin_deinitRuntimeCallback"]
  /\ pending' = [pending EXCEPT ![t] = Tail(@)]
  /\ Goto(t, "deinit_start")
  /\ UNCHANGED <<registry, globals, flags, runtimeState, heap, exitCallbacks, firstRuntime,
                 lastRuntime, deinitTrace, startStatus, effects, aborts, calls>>

\* --------------------------------------------------------------- shutdown
\* bool Kotlin_memoryLeakCheckerEnabled()
Kotlin_memoryLeakCheckerEnabled == g_checkLeaks

\* bool Kotlin_cleanersLeakCheckerEnabled()
Kotlin_cleanersLeakCheckerEnabled == g_checkLeakedCleaners

\* The switch of Kotlin_shutdownRuntime() without its kGlobalRuntimeShuttingDown label
shutdownRefusal_missingCase(lastStatus) ==
  CASE lastStatus = kGlobalRuntimeShutdown -> "Cannot shutdown Kotlin runtime twice"
    [] lastStatus = kGlobalRuntimeUninitialized -> "Kotlin runtime must have been initialized"
    [] OTHER -> "none"

\* Kotlin_shutdownRuntime(): switch (lastStatus): the diagnostic it aborts with,
\* "none" for case kGlobalRuntimeRunning
shutdownRefusal(lastStatus) ==
  CASE lastStatus = kGlobalRuntimeRunning -> "none"
    [] lastStatus \in {kGlobalRuntimeShuttingDown, kGlobalRuntimeShutdown} ->
         "Cannot shutdown Kotlin runtime twice"
    [] lastStatus = kGlobalRuntimeUninitialized ->
         "Kotlin runtime must have been initialized"

\* Kotlin_shutdownRuntime(): compareAndSwap(&globalRuntimeStatus, kGlobalRuntimeRunning,
\* kGlobalRuntimeShuttingDown), the switch on the value read, and the test of the
\* calling thread's own slot.
Kotlin_shutdownRuntime(t) ==
  /\ Idle(t)
  /\ calls' = calls + 1
  /\ LET lastStatus == globalRuntimeStatus IN
       /\ globalRuntimeStatus' = IF lastStatus = kGlobalRuntimeRunning
                                   THEN kGlobalRuntimeShuttingDown
                                   ELSE globalRuntimeStatus
       /\ IF shutdownRefusal(lastStatus) # "none"
            THEN Abort(t, shutdownRefusal(lastStatus), 0)
            ELSE IF runtimeState[t] = kInvalidRuntime
                   THEN Abort(t, "Current thread must have Kotlin runtime initialized on it", 0)
                   ELSE Goto(t, "shutdown_gc") /\ UNCHANGED aborts
  /\ UNCHANGED <<registry, aliveRuntimesCount, initializingRuntimesCount, flags, runtimeState,
                 heap, exitCallbacks, pending, locals, startStatus, effects>>

\* Kotlin_shutdownRuntime(): if (Kotlin_cleanersLeakCheckerEnabled()) PerformFullGC(...)
shutdownRuntime_fullGC(t) ==
  /\ Alive /\ pc[t] = "shutdown_gc"
  /\ fullGCs' = IF Kotlin_cleanersLeakCheckerEnabled THEN fullGCs + 1 ELSE fullGCs
  /\ Goto(t, "shutdown_cleaners")
  /\ UNCHANGED <<registry, globals, flags, runtimeState, heap, exitCallbacks, pending, locals,
                 startStatus, phaseRuns, invoked, cleanerShutdowns, aborts, calls>>

\* Kotlin_shutdownRuntime(): ShutdownCleaners(Kotlin_cleanersLeakCheckerEnabled())
shutdownRuntime_cleaners(t) ==
  /\ Alive /\ pc[t] = "shutdown_cleaners"
  /\ cleanerShutdowns' = Append(cleanerShutdowns, Kotlin_cleanersLeakCheckerEnabled)
  /\ Goto(t, "shutdown_complete")
  /\ UNCHANGED <<registry, globals, flags, runtimeState, heap, exitCallbacks, pending, locals,
                 startStatus, phaseRuns, invoked, fullGCs, aborts, calls>>

\* Kotlin_shutdownRuntime(): compareAndSwap(&globalRuntimeStatus,
\* kGlobalRuntimeShuttingDown, kGlobalRuntimeShutdown) and the RuntimeAssert on
\* the value read.
shutdownRuntime_complete(t) ==
  /\ Alive /\ pc[t] = "shutdown_complete"
  /\ LET lastStatus == globalRuntimeStatus IN
       /\ globalRuntimeStatus' = IF lastStatus = kGlobalRuntimeShuttingDown
                                   THEN kGlobalRuntimeShutdown
                                   ELSE globalRuntimeStatus
       /\ IF lastStatus = kGlobalRuntimeShuttingDown
            THEN Goto(t, "shutdown_spin") /\ UNCHANGED aborts
            ELSE Abort(t, "Must be in ShuttingDown state", 0)
  /\ UNCHANGED <<registry, aliveRuntimesCount, initializingRuntimesCount, flags, runtimeState,
                 heap, exitCallbacks, pending, locals, startStatus, effects, calls>>

\* The test of IsInitializing() with the comparison turned round
IsInitializing_negative == initializingRuntimesCount < 0

\* static bool ScopedInitializingRuntime::IsInitializing()
IsInitializing == initializingRuntimesCount > 0

\* Kotlin_shutdownRuntime(): while (ScopedInitializingRuntime::IsInitializing()) {}
\* The loop is left by the read that finds no construction in flight.
shutdownRuntime_spin(t) ==
  /\ Alive /\ pc[t] = "shutdown_spin"
  /\ ~IsInitializing
  /\ Goto(t, "shutdown_checkers")
  /\ UNCHANGED <<registry, globals, flags, runtimeState, heap, exitCallbacks, pending, locals,
                 startStatus, effects, aborts, calls>>

\* Kotlin_shutdownRuntime(): the condition of the leak-check block,
\* Kotlin_memoryLeakCheckerEnabled() || Kotlin_memoryLeakCheckerEnabled()
LeakCheckersEnabled == Kotlin_memoryLeakCheckerEnabled \/ Kotlin_memoryLeakCheckerEnabled

\* Kotlin_shutdownRuntime(): the `if` of the leak-check block and, inside it,
\* WaitNativeWorkersTermination(); without it, deinitRuntime(runtime) is called.
shutdownRuntime_checkers(t) ==
  /\ Alive /\ pc[t] = "shutdown_checkers"
  /\ IF LeakCheckersEnabled
       THEN /\ Goto(t, "shutdown_others")
            /\ UNCHANGED <<state, caller>>
       ELSE /\ state' = [state EXCEPT ![t] = runtimeState[t]]
            /\ caller' = [caller EXCEPT ![t] = "Kotlin_shutdownRuntime"]
            /\ Goto(t, "deinit_start")
  /\ UNCHANGED <<registry, globals, flags, runtimeState, heap, exitCallbacks, pending,
                 firstRuntime, lastRuntime, deinitTrace, startStatus, effects, aborts, calls>>

\* Kotlin_shutdownRuntime(): otherRuntimesCount = atomicGet(&aliveRuntimesCount) - 1;
\* abort when it is positive, else deinitRuntime(runtime).
shutdownRuntime_others(t) ==
  /\ Alive /\ pc[t] = "shutdown_others"
  /\ LET otherRuntimesCount == aliveRuntimesCount - 1 IN
       /\ otherRuntimesCount >= 0
       /\ IF otherRuntimesCount > 0
            THEN /\ Abort(t, "Cannot run checkers when there are %d alive runtimes at the shutdown",
                          otherRuntimesCount)
                 /\ UNCHANGED <<state, caller>>
            ELSE /\ state' = [state EXCEPT ![t] = runtimeState[t]]
                 /\ caller' = [caller EXCEPT ![t] = "Kotlin_shutdownRuntime"]
                 /\ Goto(t, "deinit_start")
                 /\ UNCHANGED aborts
  /\ UNCHANGED <<registry, globals, flags, runtimeState, heap, exitCallbacks, pending,
                 firstRuntime, lastRuntime, deinitTrace, startStatus, effects, calls>>

\* Kotlin_shutdownRuntime(): RuntimeAssert(otherRuntimesCount >= 0, "Cannot be negative")
\* fails: a build with RuntimeAssert enabled aborts ...
shutdownRuntime_negative(t) ==
  /\ Alive /\ pc[t] = "shutdown_others"
  /\ aliveRuntimesCount - 1 < 0
  /\ Abort(t, "Cannot be negative", 0)
  /\ UNCHANGED <<registry, globals, flags, runtimeState, heap, exitCallbacks, pending, locals,
                 startStatus, effects, calls>>

\* ... and a build without it finds otherRuntimesCount > 0 false and goes on.
shutdownRuntime_negativeUnchecked(t) ==
  /\ Alive /\ pc[t] = "shutdown_others"
  /\ aliveRuntimesCount - 1 < 0
  /\ state' = [state EXCEPT ![t] = runtimeState[t]]
  /\ caller' = [caller EXCEPT ![t] = "Kotlin_shutdownRuntime"]
  /\ Goto(t, "deinit_start")
  /\ UNCHANGED <<registry, globals, flags, runtimeState, heap, exitCallbacks, pending,
                 firstRuntime, lastRuntime, deinitTrace, startStatus, effects, aborts, calls>>

\* ------------------------------------------------------------------ flags
\* void Konan_Platform_setMemoryLeakChecker(KBoolean value); storing the value
\* the flag already has changes nothing.
Konan_Platform_setMemoryLeakChecker(value) ==
  /\ Alive
  /\ value # g_checkLeaks
  /\ calls' = calls + 1
  /\ g_checkLeaks' = value
  /\ UNCHANGED <<registry, globals, g_checkLeakedCleaners, runtimeState, heap, exitCallbacks,
                 pending, pc, locals, startStatus, effects, aborts>>

\* void Konan_Platform_setCleanersLeakChecker(KBoolean value); likewise.
Konan_Platform_setCleanersLeakChecker(value) ==
  /\ Alive
  /\ value # g_checkLeakedCleaners
  /\ calls' = calls + 1
  /\ g_checkLeakedCleaners' = value
  /\ UNCHANGED <<registry, globals, g_checkLeaks, runtimeState, heap, exitCallbacks,
                 pending, pc, locals, startStatus, effects, aborts>>

\* ---------------------------------------------------------- specification
\* The lifecycle, explored with no initializer registered
Next ==
  \/ \E t \in Threads :
       \/ CanCall(t) /\ Kotlin_initRuntimeIfNeeded(t)
       \/ initRuntime_tryStart(t)
       \/ initRuntime_construct(t)
       \/ initRuntime_allocFails(t)
       \/ initRuntime_initGlobals(t)
       \/ initRuntime_initThreadLocals(t)
       \/ initRuntime_return(t)
       \/ CanCall(t) /\ Kotlin_deinitRuntimeIfNeeded(t)
       \/ deinitRuntime_markDestroying(t)
       \/ deinitRuntime_nullState(t)
       \/ deinitRuntime_assertFails(t)
       \/ deinitRuntime_unchecked(t)
       \/ deinitRuntime_deinitThreadLocals(t)
       \/ deinitRuntime_deinitGlobals(t)
       \/ deinitRuntime_release(t)
       \/ CanExit /\ ThreadExit(t)
       \/ Kotlin_deinitRuntimeCallback(t)
       \/ CanCall(t) /\ Kotlin_shutdownRuntime(t)
       \/ shutdownRuntime_fullGC(t)
       \/ shutdownRuntime_cleaners(t)
       \/ shutdownRuntime_complete(t)
       \/ shutdownRuntime_spin(t)
       \/ shutdownRuntime_checkers(t)
       \/ shutdownRuntime_others(t)
       \/ shutdownRuntime_negative(t)
       \/ shutdownRuntime_negativeUnchecked(t)
  \/ \E value \in BOOLEAN :
       \/ calls < MaxCalls /\ Konan_Platform_setMemoryLeakChecker(value)
       \/ calls < MaxCalls /\ Konan_Platform_setCleanersLeakChecker(value)

Spec == Init /\ [][Next]_vars

\* The steps a thread takes by itself once it is inside a call or exiting
ThreadStep(t) ==
  \/ initRuntime_tryStart(t)
  \/ initRuntime_construct(t)
  \/ initRuntime_allocFails(t)
  \/ initRuntime_initGlobals(t)
  \/ initRuntime_initThreadLocals(t)
  \/ initRuntime_return(t)
  \/ deinitRuntime_markDestroying(t)
  \/ deinitRuntime_nullState(t)
  \/ deinitRuntime_assertFails(t)
  \/ deinitRuntime_unchecked(t)
  \/ deinitRuntime_deinitThreadLocals(t)
  \/ deinitRuntime_deinitGlobals(t)
  \/ deinitRuntime_release(t)
  \/ Kotlin_deinitRuntimeCallback(t)
  \/ shutdownRuntime_fullGC(t)
  \/ shutdownRuntime_cleaners(t)
  \/ shutdownRuntime_complete(t)
  \/ shutdownRuntime_spin(t)
  \/ shutdownRuntime_checkers(t)
  \/ shutdownRuntime_others(t)
  \/ shutdownRuntime_negative(t)
  \/ shutdownRuntime_negativeUnchecked(t)

\* Every thread that can take a step of its own eventually takes one: the
\* scheduler is fair, and initializer callbacks and collaborator calls return.
\* Whether and when a thread makes its next call or exits is left open.
FairSpec == Spec /\ \A t \in Threads : WF_vars(ThreadStep(t))

\* ------------------------------------------------------------ scenario B
\* Every thread calls ensure once, concurrently; once all these calls have
\* returned with a handle, every thread calls teardown once, concurrently.
\* No allocation failure, no shutdown, no thread exit.
EnsureReturned(t) == exitCallbacks[t] # <<>> /\ pc[t] # "init_running"

ScenarioEnsure(t) == exitCallbacks[t] = <<>>

ScenarioTeardown(t) == \A u \in Threads : EnsureReturned(u)

NextB ==
  \E t \in Threads :
    \/ ScenarioEnsure(t) /\ Kotlin_initRuntimeIfNeeded(t)
    \/ initRuntime_tryStart(t)
    \/ initRuntime_construct(t)
    \/ initRuntime_initGlobals(t)
    \/ initRuntime_initThreadLocals(t)
    \/ initRuntime_return(t)
    \/ ScenarioTeardown(t) /\ isValidRuntime(t) /\ Kotlin_deinitRuntimeIfNeeded(t)
    \/ deinitRuntime_markDestroying(t)
    \/ deinitRuntime_deinitThreadLocals(t)
    \/ deinitRuntime_deinitGlobals(t)
    \/ deinitRuntime_release(t)

SpecB == Init /\ [][NextB]_vars

\* ------------------------------------------------------------ scenario A
\* A single thread calls ensure and, once that call has returned with a handle,
\* shutdown; no other thread ever touches the runtime.  The leak-checker flags
\* are set to any values before the shutdown is called.
ScenarioThread == CHOOSE t \in Threads : \A u \in Threads : t <= u

ScenarioAShutdown ==
  EnsureReturned(ScenarioThread) /\ globalRuntimeStatus = kGlobalRuntimeRunning

ScenarioASetFlag ==
  calls < MaxCalls /\ globalRuntimeStatus \in {kGlobalRuntimeUninitialized, kGlobalRuntimeRunning}

NextA ==
  \/ ScenarioEnsure(ScenarioThread) /\ Kotlin_initRuntimeIfNeeded(ScenarioThread)
  \/ initRuntime_tryStart(ScenarioThread)
  \/ initRuntime_construct(ScenarioThread)
  \/ initRuntime_initGlobals(ScenarioThread)
  \/ initRuntime_initThreadLocals(ScenarioThread)
  \/ initRuntime_return(ScenarioThread)
  \/ ScenarioAShutdown /\ Kotlin_shutdownRuntime(ScenarioThread)
  \/ shutdownRuntime_fullGC(ScenarioThread)
  \/ shutdownRuntime_cleaners(ScenarioThread)
  \/ shutdownRuntime_complete(ScenarioThread)
  \/ shutdownRuntime_spin(ScenarioThread)
  \/ shutdownRuntime_checkers(ScenarioThread)
  \/ shutdownRuntime_others(ScenarioThread)
  \/ deinitRuntime_markDestroying(ScenarioThread)
  \/ deinitRuntime_deinitThreadLocals(ScenarioThread)
  \/ deinitRuntime_deinitGlobals(ScenarioThread)
  \/ deinitRuntime_release(ScenarioThread)
  \/ \E value \in BOOLEAN :
       \/ ScenarioASetFlag /\ Konan_Platform_setMemoryLeakChecker(value)
       \/ ScenarioASetFlag /\ Konan_Platform_setCleanersLeakChecker(value)

SpecA == Init /\ [][NextA]_vars

\* ------------------------------------------------------- initializer chain
\* Nodes are registered, each node once and with an empty `next`, while a thread
\* creates and tears down its runtime, which runs the four phases.
CanAppend(next) ==
  /\ \A i \in 1..Len(appended) : appended[i] # next
  /\ nodeNext[next] = nullptr

NextR ==
  \/ \E next \in Nodes : CanAppend(next) /\ AppendToInitializersTail(next)
  \/ calls < MaxCalls /\ ~isValidRuntime(ScenarioThread)
       /\ Kotlin_initRuntimeIfNeeded(ScenarioThread)
  \/ initRuntime_tryStart(ScenarioThread)
  \/ initRuntime_construct(ScenarioThread)
  \/ initRuntime_initGlobals(ScenarioThread)
  \/ initRuntime_initThreadLocals(ScenarioThread)
  \/ initRuntime_return(ScenarioThread)
  \/ calls < MaxCalls /\ isValidRuntime(ScenarioThread)
       /\ Kotlin_deinitRuntimeIfNeeded(ScenarioThread)
  \/ deinitRuntime_markDestroying(ScenarioThread)
  \/ deinitRuntime_deinitThreadLocals(ScenarioThread)
  \/ deinitRuntime_deinitGlobals(ScenarioThread)
  \/ deinitRuntime_release(ScenarioThread)

SpecR == Init /\ [][NextR]_vars

\* ================================================================ claims
\* C1: globalRuntimeStatus only ever changes by one of the steps
\* Uninitialized -> Running, Running -> ShuttingDown, ShuttingDown -> Shutdown:
\* it never moves backwards, never revisits a value and never skips one.
C1_StatusStepsForward ==
  [][globalRuntimeStatus' # globalRuntimeStatus =>
       <<globalRuntimeStatus, globalRuntimeStatus'>> \in
         { <<kGlobalRuntimeUninitialized, kGlobalRuntimeRunning>>,
           <<kGlobalRuntimeRunning, kGlobalRuntimeShuttingDown>>,
           <<kGlobalRuntimeShuttingDown, kGlobalRuntimeShutdown>> }]_vars

\* All three steps were taken, and an ensure has run its compare-and-swap after
\* the shutdown began.
C1_Witness ==
  /\ globalRuntimeStatus = kGlobalRuntimeShutdown
  /\ \E t \in Threads : startStatus[t] >= kGlobalRuntimeShuttingDown
                         /\ pc[t] # "init_start"

\* C2: an ensure call on a thread without a handle whose compare-and-swap reads
\* Shutdown aborts the process and constructs nothing: no handle is allocated,
\* the thread's slot stays empty, aliveRuntimesCount is not incremented and no
\* initializer phase runs.
C2_EnsureAfterShutdownAborts ==
  [][\A t \in Threads :
       (pc[t] = "init_start" /\ pc'[t] # "init_start"
          /\ globalRuntimeStatus = kGlobalRuntimeShutdown)
       => /\ runtimeState[t] = kInvalidRuntime
          /\ pc'[t] = "aborted"
          /\ abortMsg' = "Kotlin runtime was shut down. Cannot create new runtimes"
          /\ UNCHANGED <<runtimeState, heap, aliveRuntimesCount, phaseRuns>>]_vars

\* An ensure call was aborted with the "shut down" diagnostic.
C2_Witness ==
  \E t \in Threads :
    /\ pc[t] = "aborted"
    /\ abortMsg = "Kotlin runtime was shut down. Cannot create new runtimes"
    /\ runtimeState[t] = kInvalidRuntime

\* The thread is inside initRuntime() and has constructed its handle
Constructed(t) == pc[t] \in {"init_globals", "init_thread_locals", "init_running"}

\* C3 (as claimed): once the status has left Running (ShuttingDown or Shutdown),
\* no ensure call that starts afterwards constructs a handle or increments
\* aliveRuntimesCount.
C3_NoStartAfterShutdownBegins ==
  \A t \in Threads :
    startStatus[t] \in {kGlobalRuntimeShuttingDown, kGlobalRuntimeShutdown}
      => ~Constructed(t)

\* C3 (amended): once the status is Shutdown, no ensure call that starts
\* afterwards constructs a handle or increments aliveRuntimesCount: it stays
\* before its compare-and-swap or is aborted by it, its slot empty.
C3_NoStartAfterShutdown ==
  \A t \in Threads :
    startStatus[t] = kGlobalRuntimeShutdown
      => /\ pc[t] \in {"init_start", "aborted"}
         /\ runtimeState[t] = kInvalidRuntime

\* An ensure call that started after the status became Shutdown was aborted
\* while another thread still holds the handle it constructed before.
C3_Witness ==
  \E t, u \in Threads :
    /\ startStatus[t] = kGlobalRuntimeShutdown
    /\ pc[t] = "aborted"
    /\ u # t /\ runtimeState[u] # kInvalidRuntime

RECURSIVE SumTo(_, _)
SumTo(f, n) == IF n = 0 THEN 0 ELSE f[n] + SumTo(f, n - 1)

\* Handles whose InitThreadLocal phase has run
ThreadLocalInitialised ==
  SumTo([t \in Threads |->
           Cardinality({i \in 1..Len(heap[t]) : heap[t][i].status # "kUninitialized"})
           + (IF pc[t] = "init_running" THEN 1 ELSE 0)],
        NumThreads)

\* C4 (as claimed): in every execution InitGlobal runs at most once per process
\* and DeinitGlobal at most once per process, and InitThreadLocal has run once
\* for every handle created.
C4_GlobalPhasesOncePerProcess ==
  /\ phaseRuns[INIT_GLOBALS] <= 1
  /\ phaseRuns[DEINIT_GLOBALS] <= 1
  /\ phaseRuns[INIT_THREAD_LOCAL_GLOBALS] = ThreadLocalInitialised

\* Scenario B has run to its end
AllTornDown ==
  \A t \in Threads :
    pc[t] = "idle" /\ exitCallbacks[t] # <<>> /\ runtimeState[t] = kInvalidRuntime

\* The counts scenario B must end with
ScenarioBCounts ==
  /\ phaseRuns[INIT_GLOBALS] <= 1
  /\ phaseRuns[DEINIT_GLOBALS] <= 1
  /\ AllTornDown =>
       /\ phaseRuns[INIT_GLOBALS] = 1
       /\ phaseRuns[DEINIT_GLOBALS] = 1
       /\ phaseRuns[INIT_THREAD_LOCAL_GLOBALS] = NumThreads
       /\ phaseRuns[DEINIT_THREAD_LOCAL_GLOBALS] = NumThreads
       /\ aliveRuntimesCount = 0

\* C5: when all N threads call ensure concurrently and, after all these calls
\* returned, all N call teardown concurrently, then in every interleaving
\* InitGlobal runs exactly once, on the thread whose increment took
\* aliveRuntimesCount from 0 to 1, DeinitGlobal runs exactly once, on the thread
\* whose decrement took it from 1 to 0, InitThreadLocal and DeinitThreadLocal
\* run exactly N times each, and aliveRuntimesCount ends at 0.
C5_ScenarioB ==
  [][/\ \A t \in Threads :
          (pc[t] # "init_globals" /\ pc'[t] = "init_globals")
          => aliveRuntimesCount = 0 /\ aliveRuntimesCount' = 1
     /\ \A t \in Threads :
          (~lastRuntime[t] /\ lastRuntime'[t])
          => aliveRuntimesCount = 1 /\ aliveRuntimesCount' = 0
     /\ \A t \in Threads :
          (pc[t] # "deinit_globals" /\ pc'[t] = "deinit_globals") => lastRuntime[t]
     /\ ScenarioBCounts']_vars

\* Every thread has constructed one handle and torn it down.
C5_Witness ==
  /\ AllTornDown
  /\ \A t \in Threads : Len(heap[t]) = 1 /\ heap[t][1].destroyed

\* C6 (as claimed): while the thread whose increment was the 0 -> 1 one has not
\* completed InitGlobal, no other thread that constructed a handle has started
\* its InitThreadLocal phase or become Running.
C6_GlobalInitBeforeThreadLocalInit ==
  \A t, u \in Threads :
    (t # u /\ pc[t] = "init_globals" /\ isValidRuntime(u)
       /\ pc[u] \in {"init_thread_locals", "init_running", "idle"})
    => pc[u] = "init_thread_locals"

\* C7 (as claimed): DeinitGlobal never starts while another handle's
\* DeinitThreadLocal phase has not yet completed.
C7_GlobalDeinitAfterThreadLocalDeinit ==
  \A t, u \in Threads :
    (t # u /\ pc[t] = "deinit_release" /\ lastRuntime[t])
    => pc[u] # "deinit_thread_locals"

\* C8 (as claimed): deinitRuntime is never entered for a handle that is absent,
\* already Destroying or already destroyed.
C8_TeardownOnlyFromRunning ==
  \A t \in Threads : pc[t] = "deinit_start" => StateIsRunning(t, state[t])

\* The thread is inside Kotlin_shutdownRuntime, past its first step
InShutdown(t) ==
  \/ pc[t] \in {"shutdown_gc", "shutdown_cleaners", "shutdown_complete",
                "shutdown_spin", "shutdown_checkers", "shutdown_others"}
  \/ caller[t] = "Kotlin_shutdownRuntime"

\* C9: a call of Kotlin_shutdownRuntime goes past its first step only if its own
\* compare-and-swap moved the status from Running to ShuttingDown; a call that
\* finds another status aborts, leaving the status as it is and running no GC,
\* no cleaner stop and no teardown; so the shutdown sequence runs at most once.
C9_ShutdownOnlyOnce ==
  [][/\ \A t \in Threads :
          (pc[t] = "idle" /\ pc'[t] = "shutdown_gc")
          => /\ globalRuntimeStatus = kGlobalRuntimeRunning
             /\ globalRuntimeStatus' = kGlobalRuntimeShuttingDown
     /\ \A t \in Threads :
          (pc[t] = "idle" /\ pc'[t] = "aborted"
             /\ globalRuntimeStatus # kGlobalRuntimeRunning)
          => /\ abortMsg' \in {"Cannot shutdown Kotlin runtime twice",
                               "Kotlin runtime must have been initialized"}
             /\ UNCHANGED <<globalRuntimeStatus, fullGCs, cleanerShutdowns,
                            aliveRuntimesCount, heap, runtimeState, phaseRuns>>
     /\ Cardinality({t \in Threads : InShutdown(t)'}) <= 1
     /\ Len(cleanerShutdowns') <= 1]_vars

\* A second call was aborted while the first is still in progress.
C9_Witness ==
  \E t, u \in Threads :
    /\ pc[t] = "aborted" /\ abortMsg = "Cannot shutdown Kotlin runtime twice"
    /\ pc[u] = "shutdown_cleaners"

\* C10 (as claimed): with either leak checker enabled, Kotlin_shutdownRuntime
\* goes on to wait for the workers and to read aliveRuntimesCount, and aborts
\* without tearing down the caller's handle when another handle is alive.
C10_EitherCheckerChecksOthers ==
  [][\A t \in Threads :
       /\ (pc[t] = "shutdown_checkers" /\ pc'[t] # pc[t]
             /\ (g_checkLeaks \/ g_checkLeakedCleaners))
          => pc'[t] = "shutdown_others"
       /\ (pc[t] = "shutdown_others" /\ pc'[t] # pc[t] /\ aliveRuntimesCount - 1 > 0)
          => /\ pc'[t] = "aborted"
             /\ abortCount' = aliveRuntimesCount - 1
             /\ UNCHANGED <<heap, runtimeState, aliveRuntimesCount>>]_vars

\* Kotlin_shutdownRuntime has set the status to Shutdown and its spin-wait has
\* read initializingRuntimesCount = 0
SpinPassed ==
  /\ globalRuntimeStatus = kGlobalRuntimeShutdown
  /\ \A t \in Threads : pc[t] # "shutdown_spin"

\* C11: once Kotlin_shutdownRuntime has set the status to Shutdown and its
\* spin-wait has read initializingRuntimesCount = 0, no thread is inside handle
\* construction (past the compare-and-swap of initRuntime), none gets there
\* afterwards, and aliveRuntimesCount never increases again.
C11_NoHandleAfterSpin ==
  [][/\ SpinPassed' => \A t \in Threads : ~(pc'[t] = "init_construct" \/ Constructed(t)')
     /\ SpinPassed => /\ aliveRuntimesCount' <= aliveRuntimesCount
                      /\ \A t \in Threads : Len(heap'[t]) = Len(heap[t])]_vars

\* After the spin-wait was left, with the caller's handle still alive, another
\* thread has entered initRuntime and stands before its compare-and-swap.
C11_Witness ==
  /\ SpinPassed
  /\ aliveRuntimesCount > 0
  /\ \E t \in Threads : pc[t] = "init_start" /\ startStatus[t] = kGlobalRuntimeShutdown

\* No thread is inside an ensure, teardown or shutdown call, or in the middle of
\* its exit
Quiescent ==
  /\ Alive
  /\ \A t \in Threads : pc[t] = "idle" \/ (pc[t] = "exiting" /\ pending[t] = <<>>)

\* Threads that completed an ensure with a handle and have not torn it down
HandleHolders == {t \in Threads : pc[t] = "idle" /\ isValidRuntime(t)}

\* C12 (as claimed): aliveRuntimesCount is never negative, and at every
\* quiescent point it equals the number of threads that completed ensure
\* without a matching teardown, over all sequences of ensure, explicit
\* teardown, thread-exit teardown and shutdown.
C12_AliveCountTracksHandles ==
  /\ aliveRuntimesCount >= 0
  /\ Quiescent => aliveRuntimesCount = Cardinality(HandleHolders)

\* The handles of a thread that were constructed and not yet destroyed
LiveHandles(t) == {i \in 1..Len(heap[t]) : ~heap[t][i].destroyed}

\* C13: Kotlin_initRuntimeIfNeeded enters initRuntime only on a thread whose
\* slot is empty; called on a thread that has a handle it changes nothing (no
\* construction, no counter change, no initializer phase, slot unchanged); and
\* at every moment each thread has at most one live handle.
C13_EnsureIdempotent ==
  [][/\ \A t \in Threads :
          (pc[t] = "idle" /\ pc'[t] = "init_start") => runtimeState[t] = kInvalidRuntime
     /\ (calls' # calls /\ pc' = pc /\ flags' = flags)
          => /\ \E t \in Threads : pc[t] = "idle" /\ runtimeState[t] # kInvalidRuntime
             /\ UNCHANGED <<globals, runtimeState, heap, exitCallbacks, pending, locals,
                            startStatus, effects, aborts>>
     /\ \A t \in Threads : Cardinality(LiveHandles(t)') <= 1]_vars

\* Two calls were made, both of them ensure calls of the same thread: the first
\* constructed its handle, the second found it and returned.
C13_Witness ==
  \E t \in Threads :
    /\ calls = 2
    /\ g_checkLeaks = g_checkLeakedCleaners
    /\ \A u \in Threads : u # t => Fresh(u)
    /\ pc[t] = "idle" /\ isValidRuntime(t)
    /\ Len(heap[t]) = 1 /\ heap[t][1].status = "kRunning"
    /\ exitCallbacks[t] = <<1>>
    /\ aliveRuntimesCount = 1
    /\ phaseRuns[INIT_GLOBALS] = 1 /\ phaseRuns[INIT_THREAD_LOCAL_GLOBALS] = 1

\* Kotlin_shutdownRuntime has returned on the thread, its handle torn down
ShutdownReturned(t) ==
  /\ pc[t] = "idle"
  /\ globalRuntimeStatus = kGlobalRuntimeShutdown
  /\ runtimeState[t] = kInvalidRuntime
  /\ heap[t] # <<>> /\ heap[t][Len(heap[t])].destroyed

\* C14: under weak fairness of every thread's steps, every call of
\* Kotlin_shutdownRuntime that moved the status to ShuttingDown eventually
\* returns with the caller's handle torn down, or the process aborts; so its
\* spin-wait on initializingRuntimesCount always ends.
C14_ShutdownTerminates ==
  \A t \in Threads : InShutdown(t) ~> (~Alive \/ ShutdownReturned(t))

\* A shutdown has returned in a living process while another thread holds the
\* handle it constructed.
C14_Witness ==
  \E t, u \in Threads :
    /\ Alive
    /\ ShutdownReturned(t)
    /\ Len(cleanerShutdowns) = 1
    /\ u # t /\ pc[u] = "idle" /\ isValidRuntime(u)

\* The shutdown call of scenario A has returned
ScenarioADone ==
  /\ pc[ScenarioThread] = "idle"
  /\ cleanerShutdowns # <<>>

\* C15: when a single thread calls ensure and then Kotlin_shutdownRuntime, no
\* other thread ever holding a handle, then for every setting of the two
\* leak-checker flags the process does not abort, the thread is never stuck, no
\* phase runs twice, and the shutdown returns with globalRuntimeStatus =
\* Shutdown, aliveRuntimesCount = 0, the thread's slot empty and each of
\* InitGlobal, InitThreadLocal, DeinitThreadLocal, DeinitGlobal run exactly once.
C15_ScenarioA ==
  /\ Alive
  /\ pc[ScenarioThread] # "idle" => ENABLED ThreadStep(ScenarioThread)
  /\ \A p \in INIT_GLOBALS..DEINIT_GLOBALS : phaseRuns[p] <= 1
  /\ ScenarioADone =>
       /\ globalRuntimeStatus = kGlobalRuntimeShutdown
       /\ aliveRuntimesCount = 0
       /\ runtimeState[ScenarioThread] = kInvalidRuntime
       /\ heap[ScenarioThread][1].destroyed
       /\ \A p \in INIT_GLOBALS..DEINIT_GLOBALS : phaseRuns[p] = 1

\* The shutdown of scenario A has returned with only the cleaners checker on.
C15_Witness ==
  /\ ScenarioADone
  /\ ~g_checkLeaks /\ g_checkLeakedCleaners
  /\ fullGCs = 1

\* C16: when the allocation of the handle fails inside ensure, the call returns
\* without aborting: the thread's slot stays empty, no handle exists,
\* aliveRuntimesCount is unchanged, no initializer phase runs, and
\* initializingRuntimesCount, incremented on entry, is decremented again.
C16_AllocationFailureReturns ==
  [][\A t \in Threads :
       /\ (pc[t] = "idle" /\ pc'[t] = "init_start")
            => initializingRuntimesCount' = initializingRuntimesCount + 1
       /\ (pc[t] = "init_construct" /\ pc'[t] # pc[t] /\ heap'[t] = heap[t])
            => /\ pc'[t] = "idle"
               /\ abortMsg' = "none"
               /\ runtimeState'[t] = kInvalidRuntime
               /\ initializingRuntimesCount' = initializingRuntimesCount - 1
               /\ UNCHANGED <<runtimeState, heap, aliveRuntimesCount, phaseRuns,
                              globalRuntimeStatus>>]_vars

\* An ensure call has returned after a failed allocation: the thread has no
\* handle and never had one, and no construction is in flight.
C16_Witness ==
  \E t \in Threads :
    /\ Alive /\ pc[t] = "idle"
    /\ heap[t] = <<>> /\ runtimeState[t] = kInvalidRuntime
    /\ exitCallbacks[t] = <<kInvalidRuntime>>
    /\ initializingRuntimesCount = 0
    /\ aliveRuntimesCount = 0 /\ phaseRuns[INIT_GLOBALS] = 0

\* The callbacks a phase run would invoke now, in the order of the calls
Chain ==
  LET walk == InvokeFrom(initHeadNode, INIT_GLOBALS, kInvalidRuntime)
  IN  [i \in 1..Len(walk) |-> walk[i].init]

\* What a run of phase p for handle h of thread t must invoke
ExpectedInvocations(p, t, h) ==
  [i \in 1..Len(appended) |->
     [init |-> appended[i], initialize |-> p, memory |-> MemoryStateOf(t, h)]]

\* C17: after any sequence of AppendToInitializersTail calls with distinct nodes
\* whose next link is empty, every run of a phase invokes each registered
\* callback exactly once, in registration order, with the phase tag and the
\* memory state of the handle being set up or torn down; a phase run leaves
\* the chain as it is, and an append adds its node after the earlier entries,
\* which keep their order.
C17_PhasesWalkRegistrationOrder ==
  [][/\ Chain' = appended'
     /\ appended' # <<>> => initTailNode' = appended'[Len(appended')]
     /\ \A p \in INIT_GLOBALS..DEINIT_GLOBALS :
          phaseRuns'[p] # phaseRuns[p]
          => /\ \E t \in Threads :
                  /\ pc'[t] # pc[t]
                  /\ invoked' = ExpectedInvocations(p, t, Len(heap[t]))
             /\ UNCHANGED registry
     /\ appended' # appended
          => /\ Len(Chain') = Len(Chain) + 1
             /\ SubSeq(Chain', 1, Len(Chain)) = Chain
             /\ UNCHANGED <<phaseRuns, invoked>>]_vars

\* All nodes are registered, not in the order of their numbers, and the
\* DeinitGlobal phase of the thread's second handle has invoked all of them.
C17_Witness ==
  /\ Len(appended) = MaxNodes
  /\ appended[1] > appended[2]
  /\ Len(invoked) = MaxNodes
  /\ invoked[MaxNodes].initialize = DEINIT_GLOBALS
  /\ invoked[MaxNodes].memory = MemoryStateOf(ScenarioThread, 2)

\* The thread is inside initRuntime(): it has constructed the guard and has
\* neither returned nor, when the call aborted the process, left the function
InsideInitRuntime(t) ==
  \/ pc[t] \in {"init_start", "init_construct", "init_globals", "init_thread_locals",
                "init_running"}
  \/ pc[t] = "aborted"
       /\ abortMsg = "Kotlin runtime was shut down. Cannot create new runtimes"

\* C18: in every reachable state initializingRuntimesCount equals the number of
\* threads inside initRuntime, from before the compare-and-swap until the handle
\* is marked Running or the construction is abandoned; so it is never negative
\* and is 0 whenever no ensure call is in flight.
C18_InitializingCountsThreads ==
  /\ initializingRuntimesCount = Cardinality({t \in Threads : InsideInitRuntime(t)})
  /\ initializingRuntimesCount >= 0
  /\ (\A t \in Threads : pc[t] \in {"idle", "exiting"}) => initializingRuntimesCount = 0

\* Every thread is inside initRuntime at once, at different points of it.
C18_Witness ==
  /\ initializingRuntimesCount = NumThreads
  /\ \E t, u \in Threads : pc[t] = "init_start" /\ pc[u] = "init_running"

\* s is an initial part of r
IsPrefix(s, r) == Len(s) <= Len(r) /\ SubSeq(r, 1, Len(s)) = s

\* The order of one teardown as claimed, with or without the DeinitGlobal phase
ClaimedOrder(withDeinitGlobal) ==
  <<"kDestroying", "RestoreMemory", "atomicAdd", "DEINIT_THREAD_LOCAL_GLOBALS">>
  \o (IF withDeinitGlobal THEN <<"DEINIT_GLOBALS">> ELSE <<>>)
  \o <<"GetWorkerId", "WorkerDeinit", "DeinitMemory", "konanDestructInstance",
       "WorkerDestroyThreadDataIfNeeded">>

\* C19: within one teardown the handle is marked Destroying, then the memory
\* state is restored, then aliveRuntimesCount is decremented, then
\* DeinitThreadLocal runs, then DeinitGlobal (exactly when the decrement reached
\* 0), then the worker id is read and the worker released, then the memory
\* state is deinitialized, then the handle is destroyed, and only then the
\* thread-local worker data is cleaned up; and a handle's status only moves
\* Uninitialized -> Running -> Destroying, never back.
C19_TeardownOrder ==
  [][\A t \in Threads :
       /\ \/ IsPrefix(deinitTrace'[t], ClaimedOrder(TRUE))
          \/ IsPrefix(deinitTrace'[t], ClaimedOrder(FALSE))
       /\ (pc[t] = "deinit_start" /\ pc'[t] = "deinit_thread_locals")
            => /\ heap'[t][state[t]].status = "kDestroying"
               /\ aliveRuntimesCount' = aliveRuntimesCount - 1
               /\ lastRuntime'[t] = (aliveRuntimesCount' = 0)
               /\ Len(deinitTrace'[t]) = 3
       /\ (pc[t] = "deinit_release" /\ pc'[t] # pc[t])
            => /\ deinitTrace'[t] = ClaimedOrder(lastRuntime[t])
               /\ heap'[t][state[t]].destroyed
       /\ \A h \in 1..Len(heap[t]) :
            heap'[t][h].status # heap[t][h].status
            => <<heap[t][h].status, heap'[t][h].status>> \in
                 {<<"kUninitialized", "kRunning">>, <<"kRunning", "kDestroying">>}]_vars

\* Two teardowns have run to their end, one with the DeinitGlobal phase and one
\* without it.
C19_Witness ==
  \E t, u \in Threads :
    /\ deinitTrace[t] = ClaimedOrder(TRUE)
    /\ deinitTrace[u] = ClaimedOrder(FALSE)

\* C20 (as claimed): the runs of the global phases alternate, starting with
\* InitGlobal: InitGlobal never runs while the DeinitGlobal owed by the
\* previous 1 -> 0 decrement has not run, and DeinitGlobal never runs while a
\* handle is Running or under construction.
C20_GlobalPhasesAlternate ==
  [][/\ phaseRuns'[INIT_GLOBALS] - phaseRuns'[DEINIT_GLOBALS] \in {0, 1}
     /\ phaseRuns'[DEINIT_GLOBALS] # phaseRuns[DEINIT_GLOBALS]
          => \A u \in Threads :
               /\ ~Constructed(u)
               /\ \A h \in 1..Len(heap[u]) : heap[u][h].status # "kRunning"]_vars

====
